---- MODULE Spec2Model ----
(***************************************************************************)
(* Document ingestion: job queue / worker loop (src/ingestion/worker.py),  *)
(* the pipeline orchestrator with its per-step events                      *)
(* (src/ingestion/pipeline.py, repositories/document_repo.py) and the      *)
(* chunker (_chunk_text, _prepare_chunks).                                 *)
(*                                                                         *)
(* The relational store is modelled as committed tables plus, for every    *)
(* session, the rows it has flushed but not yet committed.  A row lock is  *)
(* held from the statement that takes it until the session commits.        *)
(***************************************************************************)
EXTENDS Integers, Sequences, FiniteSets, TLC

(***************************** bounds ***************************************)
NumWorkers == 2
NumJobs == 2
NumRunners == 2
NumPipeJobs == 1
MaxRuns == 2
MaxFiles == 2
MaxEvents == 6
MaxLen == 5
MaxSize == 3
PipeChunkSize == 2
MaxPages == 2
MaxTokens == 3
NumThreads == 2
NumPaths == 2
MaxBytes == 2
MaxParses == 3

Workers == 1..NumWorkers
Jobs == 1..NumJobs
PipeJobs == 1..NumPipeJobs
AllJobs == 1..(IF NumJobs >= NumPipeJobs THEN NumJobs ELSE NumPipeJobs)
Runners == 1..NumRunners
NoJob == 0
NoWorker == 0
NoEvent == 0
NoSession == 0

(* IngestionStatus / IngestionEventStatus *)
IngestionStatus == {"pending", "running", "success", "failed"}
IngestionEventStatus == {"pending", "running", "success", "failed"}

(* IngestionStep, in the order run() walks them *)
IngestionStep == <<"docling_parse", "chunk_assembly", "embedding_indexing", "citation_enrichment">>
Steps == {IngestionStep[i] : i \in 1..4}

(* DocumentIngestionPipeline.__init__ defaults *)
DefaultChunkSize == 1200
DefaultChunkOverlap == 150

Max(a, b) == IF a >= b THEN a ELSE b
Min(a, b) == IF a <= b THEN a ELSE b

(***************************** page text ************************************)
(* A page text is a sequence of characters; "s" is any whitespace and "a"  *)
(* any other character.                                                    *)
Chars == {"a", "s"}

RECURSIVE TextsOfLen(_)
TextsOfLen(n) ==
  IF n = 0 THEN {<<>>}
  ELSE {Append(t, c) : t \in TextsOfLen(n - 1), c \in Chars}

Texts == UNION {TextsOfLen(n) : n \in 0..MaxLen}

(* str.strip() is non-empty *)
NonBlank(t) == \E i \in 1..Len(t) : t[i] # "s"

(* text[start:end] *)
Slice(t, start, end) == SubSeq(t, start + 1, end)

(******************************* chunker ************************************)
(* the while loop of _chunk_text, from a given start *)
RECURSIVE ChunkLoop(_, _, _, _)
ChunkLoop(text, chunk_size, step, start) ==
  IF start >= Len(text) THEN <<>>
  ELSE
    LET end == Min(start + chunk_size, Len(text))
        chunk == Slice(text, start, end)
        emitted == IF NonBlank(chunk)
                   THEN << [text |-> chunk, start |-> start, end |-> end] >>
                   ELSE <<>>
    IN IF end = Len(text) THEN emitted
       ELSE emitted \o ChunkLoop(text, chunk_size, step, start + step)

ChunkStepWrong(chunk_size, chunk_overlap) == Max(chunk_size, 1)

(* the clamped step of _chunk_text *)
ChunkStep(chunk_size, chunk_overlap) ==
  LET cs == Max(chunk_size, 1)
      co0 == Max(chunk_overlap, 0)
      co == IF co0 >= cs THEN cs - 1 ELSE co0
  IN Max(cs - co, 1)

_chunk_text(text, chunk_size, chunk_overlap) ==
  IF text = <<>> THEN <<>>
  ELSE ChunkLoop(text, Max(chunk_size, 1), ChunkStep(chunk_size, chunk_overlap), 0)

(* str.strip(): leading and trailing whitespace removed *)
RECURSIVE lstrip(_)
lstrip(t) == IF t # <<>> /\ Head(t) = "s" THEN lstrip(Tail(t)) ELSE t

RECURSIVE rstrip(_)
rstrip(t) ==
  IF t # <<>> /\ t[Len(t)] = "s" THEN rstrip(SubSeq(t, 1, Len(t) - 1)) ELSE t

strip(t) == rstrip(lstrip(t))

(* a metadata value that is missing, None or the empty string *)
NoValue == <<>>

(* ParsedPage: number, content and the two metadata entries a citation reads *)
ParsedPage(number, content, image_path, docling_hash) ==
  [number |-> number, content |-> content,
   image_path |-> image_path, docling_hash |-> docling_hash]

(* the preview route of a page *)
image_url(document_id, page_number) ==
  <<"ingestion", "documents", document_id, "pages", page_number, "preview">>

(* the hash looked up on the page only, without the document's *)
page_hashWrong(page, parsed) == strip(page.docling_hash)

(* the page's docling_hash, falling back to the document's *)
page_hash(page, parsed) ==
  IF strip(page.docling_hash) # NoValue THEN strip(page.docling_hash)
  ELSE strip(parsed.docling_hash)

(* the citation of a chunk of `page`; a key that is not set is NoValue *)
citation(page, parsed, document_id) ==
  [page_number |-> page.number,
   image_path |-> strip(page.image_path),
   docling_hash |-> page_hash(page, parsed),
   image_url |-> IF page.image_path # NoValue \/ page_hash(page, parsed) # NoValue
                 THEN image_url(document_id, page.number)
                 ELSE NoValue]

(* the chunks of the first n pages of a ParsedDocument, page by page *)
RECURSIVE PageChunks(_, _, _, _, _)
PageChunks(parsed, document_id, chunk_size, chunk_overlap, n) ==
  IF n = 0 THEN <<>>
  ELSE
    LET page == parsed.pages[n]
        windows == _chunk_text(page.content, chunk_size, chunk_overlap)
        kept == SelectSeq(windows, LAMBDA w : NonBlank(w.text))
    IN PageChunks(parsed, document_id, chunk_size, chunk_overlap, n - 1)
       \o [i \in 1..Len(kept) |->
             [text |-> kept[i].text, page_number |-> page.number,
              char_start |-> kept[i].start, char_end |-> kept[i].end,
              citation |-> citation(page, parsed, document_id)]]

_prepare_chunks(parsed, document_id, chunk_size, chunk_overlap) ==
  PageChunks(parsed, document_id, chunk_size, chunk_overlap, Len(parsed.pages))

(***************************** variables ************************************)
VARIABLES
  (* job table *)
  jobStatus,     \* committed IngestionJob.status of every job
  jobFiles,      \* the files under IngestionJob.source, as file kinds
  rowLock,       \* the worker session holding the row lock of a job
  (* worker_loop *)
  wpc,           \* position of every worker in worker_loop / process_job
  wjob,          \* the job a worker holds
  wsawNone,      \* the worker's last _acquire_job returned None
  claimed,       \* per job, the workers that marked it running
  (* pipeline *)
  jobOrigin,     \* "api": created by POST /jobs, "upload": by POST /jobs/upload
  jobChunkSize,  \* IngestionJob.chunk_size
  jobChunkOverlap, \* IngestionJob.chunk_overlap
  upIdx,         \* per job, the events upload_jobs has created so far
  events,        \* ingestion_events rows, in created_at order
  documents,     \* documents rows
  chunks,        \* committed chunks rows
  run,           \* per runner, the activation record of run(job)
  runs,          \* number of run(job) calls started
  ensureIds,     \* per (job, step), the rows _ensure_event has returned
  (* chunker under test *)
  cText, cSize, cOverlap, cOut, cDone,
  (* DoclingParser *)
  files,         \* per path, the bytes of the file
  converterOn,   \* DoclingParser._converter is not None
  artifact,      \* per hash, what docling_dir/<hash>/<hash>.json holds
  tampered,      \* hashes whose artifact was damaged from outside
  convOf,        \* per hash, what converter.convert does with these bytes
  convCalls,     \* per hash, the number of converter.convert calls
  hashIndex,     \* the hash index file: path -> hash
  parse,         \* per thread, the activation record of parse(path)
  parses,        \* number of parse(path) calls started
  (* IngestionService *)
  jobExists,     \* per job id, the row is in ingestion_jobs
  response,      \* the outcome of the last IngestionService call
  (* _prepare_chunks under test *)
  cite,          \* the arguments and the result of one _prepare_chunks call
  (* _prepare_pages under test *)
  rawPage,       \* a page payload of the converter and the page made of it
  (* the loop of _chunk_text *)
  loop,          \* the arguments and the locals of one _chunk_text call
  (* the files of the storage directories *)
  disk           \* the paths that exist, what each job's rows name, what was removed

jvars == <<jobStatus, jobFiles, rowLock>>
wvars == <<wpc, wjob, wsawNone, claimed>>
cvars == <<cText, cSize, cOverlap, cOut, cDone>>
pvars == <<jobOrigin, jobChunkSize, jobChunkOverlap, upIdx, events, documents, chunks,
           run, runs, ensureIds>>
dvars == <<files, converterOn, artifact, tampered, convOf, convCalls, hashIndex, parse, parses>>
svars == <<jobExists, response>>
xvars == <<cite, rawPage, loop, disk>>
vars == <<jvars, wvars, pvars, cvars, dvars, svars, xvars>>

(******************************* sources ************************************)
(* What the parser does with a file: "text" parses to one document with a  *)
(* chunkable page, "blank" to one document whose only page is whitespace,  *)
(* "multi" to two documents, "bad" makes the conversion raise.             *)
FileKinds == {"text", "blank", "multi", "bad"}

RECURSIVE FileSeqsOfLen(_)
FileSeqsOfLen(n) ==
  IF n = 0 THEN {<<>>}
  ELSE {Append(fs, k) : fs \in FileSeqsOfLen(n - 1), k \in FileKinds}

(* a single file, or the files of a directory in the order rglob yields them *)
Sources == UNION {FileSeqsOfLen(n) : n \in 1..MaxFiles}

(* sources of the jobs the workers drain *)
WorkerSources == {fs \in Sources : \A i \in 1..Len(fs) : fs[i] # "multi"}

(***************************** parser state *********************************)
Threads == 1..NumThreads
Paths == 1..NumPaths
NoPath == 0
NoHash == 0

(* A file is a sequence of bytes: "a" is a byte that decodes as UTF-8, "x"  *)
(* one that does not.                                                       *)
Bytes == {"a", "x"}

RECURSIVE ByteSeqsOfLen(_)
ByteSeqsOfLen(n) ==
  IF n = 0 THEN {<<>>}
  ELSE {Append(b, c) : b \in ByteSeqsOfLen(n - 1), c \in Bytes}

FileContents == UNION {ByteSeqsOfLen(n) : n \in 1..MaxBytes}

(* hashlib.sha256 over the bytes read in order: a digest that differs for   *)
(* different byte sequences                                                 *)
RECURSIVE Digest(_)
Digest(bytes) ==
  IF bytes = <<>> THEN 1
  ELSE 2 * Digest(SubSeq(bytes, 1, Len(bytes) - 1))
       + (IF bytes[Len(bytes)] = "a" THEN 0 ELSE 1)

Hashes == {Digest(b) : b \in FileContents}

(* What <hash>.json holds: nothing, the document format persisted after a   *)
(* conversion, text that is not JSON, bytes that are not UTF-8, or JSON     *)
(* without a document format                                                *)
ArtifactKinds == {"missing", "document", "badjson", "badutf8", "nodoc"}
Unparsable == {"badjson", "badutf8"}

(* What converter.convert does with given bytes: returns a result with one  *)
(* or two document formats, a result with none, or raises                   *)
ConvKinds == {"one", "two", "nodoc", "raise"}

IdleParse ==
  [pc |-> "idle", path |-> NoPath, file_hash |-> NoHash, documents |-> 0,
   hash_index |-> [p \in Paths |-> NoHash], outcome |-> "none", result |-> <<>>,
   sawUnparsable |-> FALSE, converted |-> FALSE, indexed |-> FALSE]

ParseTablesInit ==
  /\ artifact = [h \in Hashes |-> "missing"]
  /\ tampered = {}
  /\ convOf = [h \in Hashes |-> "unknown"]
  /\ convCalls = [h \in Hashes |-> 0]
  /\ hashIndex = [p \in Paths |-> NoHash]
  /\ parse = [t \in Threads |-> IdleParse]
  /\ parses = 0

ParseIdle ==
  /\ files = [p \in Paths |-> <<"a">>]
  /\ converterOn = FALSE
  /\ ParseTablesInit

(* no _prepare_chunks call under test *)
CiteIdle ==
  cite = [parsed |-> [pages |-> <<>>, docling_hash |-> NoValue], document_id |-> 0,
          chunk_size |-> 0, chunk_overlap |-> 0, payloads |-> <<>>, done |-> FALSE]

(* no page payload under test *)
PageIdle ==
  rawPage = [payload |-> [text |-> <<>>, content |-> <<>>, plain_text |-> <<>>,
                          blocks |-> <<>>],
             content |-> <<>>, skipped |-> FALSE, done |-> FALSE]

(* no _chunk_text call in progress *)
LoopIdle ==
  loop = [text |-> <<>>, chunk_size |-> 0, chunk_overlap |-> 0, step |-> 0,
          start |-> 0, chunks |-> <<>>, iterations |-> 0, pc |-> "idle"]

(* no file system under test *)
DiskIdle == disk = [fs |-> {}, rows |-> <<>>, cleaned |-> {}, removed |-> {}]

XIdle == CiteIdle /\ PageIdle /\ LoopIdle /\ DiskIdle

(***************************** worker loop **********************************)
WorkerFrame == UNCHANGED <<pvars, cvars, dvars, svars, xvars>>

(* the rows SELECT ... WHERE status = pending FOR UPDATE SKIP LOCKED sees *)
_acquire_jobWrong == {j \in Jobs : jobStatus[j] = "running" /\ rowLock[j] = NoWorker}

_acquire_job == {j \in Jobs : jobStatus[j] = "pending" /\ rowLock[j] = NoWorker}

(* worker.py:51 - a pending, unlocked row is selected and locked *)
Acquire(w) ==
  /\ wpc[w] = "poll"
  /\ \E j \in _acquire_job :
       /\ rowLock' = [rowLock EXCEPT ![j] = w]
       /\ wjob' = [wjob EXCEPT ![w] = j]
  /\ wpc' = [wpc EXCEPT ![w] = "acquired"]
  /\ wsawNone' = [wsawNone EXCEPT ![w] = FALSE]
  /\ UNCHANGED <<jobStatus, jobFiles, claimed>>
  /\ WorkerFrame

(* worker.py:52-54 - no row: leave the transaction and sleep *)
AcquireNone(w) ==
  /\ wpc[w] = "poll"
  /\ _acquire_job = {}
  /\ wpc' = [wpc EXCEPT ![w] = "sleep"]
  /\ wsawNone' = [wsawNone EXCEPT ![w] = TRUE]
  /\ UNCHANGED <<jobStatus, jobFiles, rowLock, wjob, claimed>>
  /\ WorkerFrame

(* worker.py:53-54 - poll interval elapsed, continue *)
Wake(w) ==
  /\ wpc[w] = "sleep"
  /\ wpc' = [wpc EXCEPT ![w] = "poll"]
  /\ UNCHANGED <<jvars, wjob, wsawNone, claimed>>
  /\ WorkerFrame

(* worker.py:50 - leaving `async with session.begin()` commits the         *)
(* transaction of the SELECT, which releases its row lock                  *)
EndAcquireTxn(w) ==
  /\ wpc[w] = "acquired"
  /\ rowLock' = [rowLock EXCEPT ![wjob[w]] = NoWorker]
  /\ wpc' = [wpc EXCEPT ![w] = "start"]
  /\ UNCHANGED <<jobStatus, jobFiles, wjob, wsawNone, claimed>>
  /\ WorkerFrame

(* update_job_status: the UPDATE is flushed, which takes the row lock; it  *)
(* waits while another session holds it                                    *)
FlushJobStatus(w, from, to) ==
  /\ wpc[w] = from
  /\ rowLock[wjob[w]] = NoWorker
  /\ rowLock' = [rowLock EXCEPT ![wjob[w]] = w]
  /\ wpc' = [wpc EXCEPT ![w] = to]
  /\ UNCHANGED <<jobStatus, jobFiles, wjob, wsawNone, claimed>>

(* repo.commit(): the flushed status becomes the committed one *)
CommitJobStatus(w, from, status, to) ==
  /\ wpc[w] = from
  /\ jobStatus' = [jobStatus EXCEPT ![wjob[w]] = status]
  /\ rowLock' = [rowLock EXCEPT ![wjob[w]] = NoWorker]
  /\ wpc' = [wpc EXCEPT ![w] = to]

(* worker.py:32 *)
MarkRunning(w) ==
  /\ FlushJobStatus(w, "start", "running_flushed")
  /\ WorkerFrame

(* worker.py:33 *)
CommitRunning(w) ==
  /\ CommitJobStatus(w, "running_flushed", "running", "work")
  /\ claimed' = [claimed EXCEPT ![wjob[w]] = @ \cup {w}]
  /\ UNCHANGED <<jobFiles, wjob, wsawNone>>
  /\ WorkerFrame

(* worker.py:36-38 - the placeholder sleeps, then the job is marked success *)
MarkSuccess(w) ==
  /\ FlushJobStatus(w, "work", "success_flushed")
  /\ WorkerFrame

(* worker.py:39, then the loop's asyncio.sleep(0) *)
CommitSuccess(w) ==
  /\ CommitJobStatus(w, "success_flushed", "success", "poll")
  /\ wjob' = [wjob EXCEPT ![w] = NoJob]
  /\ UNCHANGED <<jobFiles, wsawNone, claimed>>
  /\ WorkerFrame

(* worker.py:40-42 - a statement of the try block raised (the store         *)
(* rejected the update or the commit); the session rolls back and the job   *)
(* is marked failed                                                         *)
MarkFailed(w) ==
  /\ wpc[w] \in {"work", "success_flushed"}
  /\ rowLock[wjob[w]] \in {NoWorker, w}
  /\ rowLock' = [rowLock EXCEPT ![wjob[w]] = w]
  /\ wpc' = [wpc EXCEPT ![w] = "failed_flushed"]
  /\ UNCHANGED <<jobStatus, jobFiles, wjob, wsawNone, claimed>>
  /\ WorkerFrame

(* worker.py:43 *)
CommitFailed(w) ==
  /\ CommitJobStatus(w, "failed_flushed", "failed", "poll")
  /\ wjob' = [wjob EXCEPT ![w] = NoJob]
  /\ UNCHANGED <<jobFiles, wsawNone, claimed>>
  /\ WorkerFrame

(* The worker process dies anywhere in worker_loop: its connection closes,  *)
(* the open transaction is rolled back and its row lock is released.  The   *)
(* position records whether it died in process_job after it had committed   *)
(* running (worker.py:33) and before it committed success or failed.        *)
Crash(w) ==
  /\ wpc[w] \notin {"crashed", "crashed_running"}
  /\ wpc' = [wpc EXCEPT ![w] =
               IF wpc[w] \in {"work", "success_flushed", "failed_flushed"}
               THEN "crashed_running" ELSE "crashed"]
  /\ rowLock' = [j \in AllJobs |-> IF rowLock[j] = w THEN NoWorker ELSE rowLock[j]]
  /\ UNCHANGED <<jobStatus, jobFiles, wjob, wsawNone, claimed>>
  /\ WorkerFrame

WorkerInit ==
  /\ wpc = [w \in Workers |-> "poll"]
  /\ wjob = [w \in Workers |-> NoJob]
  /\ wsawNone = [w \in Workers |-> FALSE]
  /\ claimed = [j \in Jobs |-> {}]

(* no IngestionService call has been made *)
NoResponse ==
  [op |-> "none", job |-> NoJob, status |-> 0, collection |-> "none",
   payload |-> [chunk_size |-> <<>>, chunk_overlap |-> <<>>],
   chunk_size |-> 0, chunk_overlap |-> 0]

(* the jobs exist: their rows were created before *)
JobsInit ==
  /\ jobStatus = [j \in AllJobs |-> "pending"]
  /\ rowLock = [j \in AllJobs |-> NoWorker]
  /\ jobExists = [j \in AllJobs |-> TRUE]
  /\ response = NoResponse

IdleRun ==
  [phase |-> "idle", job |-> NoJob, file |-> 0, step |-> 0, found |-> NoEvent,
   event |-> NoEvent, docs |-> <<>>, document |-> 0, payloads |-> <<>>,
   flushed |-> <<>>, outcome |-> "none", raisedStep |-> 0, blankDoc |-> FALSE,
   mismatch |-> FALSE]

PipeTablesInit ==
  /\ upIdx = [j \in AllJobs |-> 0]
  /\ events = <<>>
  /\ documents = <<>>
  /\ chunks = {}
  /\ run = [r \in Runners |-> IdleRun]
  /\ runs = 0
  /\ ensureIds = [j \in AllJobs |-> [s \in 1..4 |-> {}]]

PipeIdle ==
  /\ jobOrigin = [j \in AllJobs |-> "api"]
  /\ jobChunkSize = [j \in AllJobs |-> DefaultChunkSize]
  /\ jobChunkOverlap = [j \in AllJobs |-> DefaultChunkOverlap]
  /\ PipeTablesInit

ChunkIdle ==
  /\ cText = <<>>
  /\ cSize = 1
  /\ cOverlap = 0
  /\ cOut = <<>>
  /\ cDone = FALSE

Init ==
  /\ JobsInit
  /\ jobFiles \in [AllJobs -> WorkerSources]
  /\ PipeIdle
  /\ WorkerInit
  /\ XIdle
  /\ ChunkIdle
  /\ ParseIdle

Next ==
  \/ \E w \in Workers : Acquire(w)
  \/ \E w \in Workers : AcquireNone(w)
  \/ \E w \in Workers : Wake(w)
  \/ \E w \in Workers : EndAcquireTxn(w)
  \/ \E w \in Workers : MarkRunning(w)
  \/ \E w \in Workers : CommitRunning(w)
  \/ \E w \in Workers : MarkSuccess(w)
  \/ \E w \in Workers : CommitSuccess(w)
  \/ \E w \in Workers : MarkFailed(w)
  \/ \E w \in Workers : CommitFailed(w)
  \/ \E w \in Workers : Crash(w)

Spec == Init /\ [][Next]_vars

(******************************** parser ************************************)
TextPage == <<"a", "a", "s", "a">>
BlankPage == <<"s", "s">>

(* the hash of the converted file, which _prepare_document puts into the   *)
(* metadata of the document and of every page                              *)
FileHash == <<"h">>

(* a ParsedDocument of the converter: pages numbered from 1 *)
ParsedDocument(texts) ==
  [pages |-> [n \in 1..Len(texts) |-> ParsedPage(n, texts[n], NoValue, FileHash)],
   docling_hash |-> FileHash]

(* parser.parse(path): the ParsedDocuments of a file; defined for the      *)
(* kinds that do not raise                                                 *)
ParsedDocuments(kind) ==
  CASE kind = "text" -> << ParsedDocument(<<TextPage>>) >>
    [] kind = "blank" -> << ParsedDocument(<<BlankPage>>) >>
    [] kind = "multi" -> << ParsedDocument(<<TextPage>>),
                            ParsedDocument(<<BlankPage, TextPage>>) >>
    [] OTHER -> <<>>

AllBlank(parsed) ==
  \A i \in 1..Len(parsed.pages) : ~NonBlank(parsed.pages[i].content)

(***************************** event table **********************************)
(* A row is [job, step, status, dirty, dstatus]: status is the committed   *)
(* status ("none" while the INSERT is uncommitted), dirty the session with *)
(* an uncommitted write on the row (which holds its lock), dstatus the     *)
(* status written last, committed or not.                                  *)
Visible(r, row) == row.status # "none" \/ (row.dirty = r /\ row.dstatus # "none")

ViewStatus(r, row) == IF row.dirty = r THEN row.dstatus ELSE row.status

Committed(row) == row.status # "none"

(* rows of (job, step) in the committed table *)
EventRows(j, s) ==
  {i \in 1..Len(events) : events[i].job = j /\ events[i].step = s /\ Committed(events[i])}

SetMin(S) == CHOOSE x \in S : \A y \in S : x <= y

get_event_for_stepWrong(r, j, s) == NoEvent

(* DocumentRepository.get_event_for_step: first row by created_at *)
get_event_for_step(r, j, s) ==
  LET ids == {i \in 1..Len(events) :
                events[i].job = j /\ events[i].step = s /\ Visible(r, events[i])}
  IN IF ids = {} THEN NoEvent ELSE SetMin(ids)

(* DocumentRepository.update_event_status, flushed in session r *)
update_event_status(ev, r, e, status) ==
  [ev EXCEPT ![e] = [@ EXCEPT !.dirty = r, !.dstatus = status]]

(* the row lock of e is free for session r *)
CanWrite(r, e) == events[e].dirty \in {NoSession, r}

commitWrong(ev, r) == ev

(* session.commit() of session r *)
commit(ev, r) ==
  [i \in DOMAIN ev |->
     IF ev[i].dirty = r
     THEN [ev[i] EXCEPT !.status = ev[i].dstatus, !.dirty = NoSession]
     ELSE ev[i]]

(* DocumentRepository.create_event: the INSERT, flushed in session r *)
create_event(ev, r, e) ==
  [ev EXCEPT ![e] = [@ EXCEPT !.dirty = r, !.dstatus = "pending"]]

PipeFrame == UNCHANGED <<jvars, wvars, cvars, dvars, svars, xvars>>

(****************************** upload_jobs *********************************)
(* router.py:123-134 - one pending event per step, each committed by        *)
(* IngestionService.create_event                                            *)
UploadCreateEvent(j) ==
  /\ jobOrigin[j] = "upload"
  /\ upIdx[j] < 4
  /\ Len(events) < MaxEvents
  /\ events' = Append(events, [job |-> j, step |-> upIdx[j] + 1, status |-> "pending",
                               dirty |-> NoSession, dstatus |-> "pending"])
  /\ upIdx' = [upIdx EXCEPT ![j] = @ + 1]
  /\ UNCHANGED <<jobOrigin, jobChunkSize, jobChunkOverlap, documents, chunks, run, runs,
                 ensureIds>>
  /\ PipeFrame

(************************* DocumentIngestionPipeline ************************)
Kind(rec) == jobFiles[rec.job][rec.file]

(* pipeline.py:528 - the next path of the for loop, or the normal return *)
NextFile(rec) ==
  IF rec.file < Len(jobFiles[rec.job])
  THEN [rec EXCEPT !.file = @ + 1, !.step = 1, !.phase = "lookup", !.docs = <<>>,
                   !.payloads = <<>>]
  ELSE [rec EXCEPT !.phase = "done", !.outcome = "returned"]

(* pipeline.py:554 - the next parsed document of the path *)
NextDocument(rec) ==
  IF Len(rec.docs) > 1
  THEN [rec EXCEPT !.docs = Tail(@), !.phase = "create_document", !.payloads = <<>>]
  ELSE NextFile(rec)

PipeUnchanged == UNCHANGED <<jobOrigin, jobChunkSize, jobChunkOverlap, upIdx, runs>>

(* run(job) is called; _collect_sources found the files *)
RunStart(r, j) ==
  /\ run[r].phase \in {"idle", "done"}
  /\ runs < MaxRuns
  /\ runs' = runs + 1
  /\ run' = [run EXCEPT ![r] = [IdleRun EXCEPT !.phase = "lookup", !.job = j,
                                               !.file = 1, !.step = 1]]
  /\ UNCHANGED <<jobOrigin, jobChunkSize, jobChunkOverlap, upIdx, events, documents,
                 chunks, ensureIds>>
  /\ PipeFrame

(* _ensure_event, pipeline.py:511 - the SELECT; it opens the transaction    *)
(* whose start time is the created_at of a row this call inserts            *)
EnsureLookup(r) ==
  /\ run[r].phase = "lookup"
  /\ LET f == get_event_for_step(r, run[r].job, run[r].step)
     IN IF f # NoEvent
        THEN /\ run' = [run EXCEPT ![r] = [@ EXCEPT !.found = f, !.phase = "ensure"]]
             /\ UNCHANGED events
        ELSE /\ Len(events) < MaxEvents
             /\ events' = Append(events, [job |-> run[r].job, step |-> run[r].step,
                                          status |-> "none", dirty |-> r,
                                          dstatus |-> "none"])
             /\ run' = [run EXCEPT ![r] = [@ EXCEPT !.found = NoEvent,
                                                    !.event = Len(events) + 1,
                                                    !.phase = "ensure"]]
  /\ UNCHANGED <<documents, chunks, ensureIds>>
  /\ PipeUnchanged
  /\ PipeFrame

(* _ensure_event, pipeline.py:512-521 - create the row if none was found *)
_ensure_event(r) ==
  /\ run[r].phase = "ensure"
  /\ LET e == IF run[r].found = NoEvent THEN run[r].event ELSE run[r].found
     IN /\ events' = IF run[r].found = NoEvent THEN create_event(events, r, e) ELSE events
        /\ run' = [run EXCEPT ![r] = [@ EXCEPT !.event = e, !.phase = "mark"]]
        /\ ensureIds' = [ensureIds EXCEPT ![run[r].job][run[r].step] = @ \cup {e}]
  /\ UNCHANGED <<documents, chunks>>
  /\ PipeUnchanged
  /\ PipeFrame

(* the first update_event_status of a step: running for parse, chunk and   *)
(* embed (pipeline.py:531, 568, 599), success for citation (644)           *)
MarkEvent(r) ==
  /\ run[r].phase = "mark"
  /\ CanWrite(r, run[r].event)
  /\ events' = update_event_status(events, r, run[r].event,
                                   IF run[r].step = 4 THEN "success" ELSE "running")
  /\ run' = [run EXCEPT ![r] = [@ EXCEPT !.phase = "commit_mark"]]
  /\ UNCHANGED <<documents, chunks, ensureIds>>
  /\ PipeUnchanged
  /\ PipeFrame

(* pipeline.py:536, 575, 606, 651 *)
CommitMark(r) ==
  /\ run[r].phase = "commit_mark"
  /\ events' = commit(events, r)
  /\ run' = [run EXCEPT ![r] = IF run[r].step = 4 THEN NextDocument(@)
                               ELSE [@ EXCEPT !.phase = "call"]]
  /\ UNCHANGED <<documents, chunks, ensureIds>>
  /\ PipeUnchanged
  /\ PipeFrame

(* pipeline.py:538, 547 - parser.parse returned *)
ParseReturn(r) ==
  /\ run[r].phase = "call" /\ run[r].step = 1
  /\ Kind(run[r]) # "bad"
  /\ CanWrite(r, run[r].event)
  /\ events' = update_event_status(events, r, run[r].event, "success")
  /\ run' = [run EXCEPT ![r] = [@ EXCEPT !.docs = ParsedDocuments(Kind(run[r])),
                                         !.phase = "commit_done"]]
  /\ UNCHANGED <<documents, chunks, ensureIds>>
  /\ PipeUnchanged
  /\ PipeFrame

(* pipeline.py:539-544 - parser.parse raised *)
ParseRaise(r) ==
  /\ run[r].phase = "call" /\ run[r].step = 1
  /\ Kind(run[r]) = "bad"
  /\ CanWrite(r, run[r].event)
  /\ events' = update_event_status(events, r, run[r].event, "failed")
  /\ run' = [run EXCEPT ![r] = [@ EXCEPT !.phase = "commit_failed"]]
  /\ UNCHANGED <<documents, chunks, ensureIds>>
  /\ PipeUnchanged
  /\ PipeFrame

(* pipeline.py:545-546 - commit, re-raise *)
CommitFailedRaise(r) ==
  /\ run[r].phase = "commit_failed"
  /\ events' = commit(events, r)
  /\ run' = [run EXCEPT ![r] = [@ EXCEPT !.phase = "done", !.outcome = "raised",
                                         !.raisedStep = run[r].step]]
  /\ UNCHANGED <<documents, chunks, ensureIds>>
  /\ PipeUnchanged
  /\ PipeFrame

(* pipeline.py:552, 593-596, 628 - commit of a step's success *)
CommitDone(r) ==
  /\ run[r].phase = "commit_done"
  /\ events' = commit(events, r)
  /\ run' = [run EXCEPT ![r] =
       CASE run[r].step = 1 ->
              IF run[r].docs = <<>> THEN NextFile(@)
              ELSE [@ EXCEPT !.phase = "create_document"]
         [] run[r].step = 2 ->
              IF run[r].payloads = <<>> THEN NextDocument(@)
              ELSE [@ EXCEPT !.step = 3, !.phase = "lookup"]
         [] OTHER -> [@ EXCEPT !.step = 4, !.phase = "lookup"]]
  /\ UNCHANGED <<documents, chunks, ensureIds>>
  /\ PipeUnchanged
  /\ PipeFrame

(* pipeline.py:558-565 - create_document, committed *)
CreateDocument(r) ==
  /\ run[r].phase = "create_document"
  /\ documents' = Append(documents, [job |-> run[r].job, file |-> run[r].file])
  /\ run' = [run EXCEPT ![r] = [@ EXCEPT !.document = Len(documents) + 1, !.step = 2,
                                         !.phase = "lookup"]]
  /\ UNCHANGED <<events, chunks, ensureIds>>
  /\ PipeUnchanged
  /\ PipeFrame

(* pipeline.py:582-583 - `job.chunk_size or self.chunk_size` *)
OrDefault(value, default) == IF value # 0 THEN value ELSE default

(* pipeline.py:577-592 - _prepare_chunks, then the chunk event is success *)
PrepareChunks(r) ==
  /\ run[r].phase = "call" /\ run[r].step = 2
  /\ CanWrite(r, run[r].event)
  /\ events' = update_event_status(events, r, run[r].event, "success")
  /\ LET parsed == Head(run[r].docs)
         chunk_payloads ==
           _prepare_chunks(parsed, run[r].document,
                           OrDefault(jobChunkSize[run[r].job], DefaultChunkSize),
                           OrDefault(jobChunkOverlap[run[r].job], DefaultChunkOverlap))
     IN run' = [run EXCEPT ![r] = [@ EXCEPT !.payloads = chunk_payloads,
                                            !.blankDoc = @ \/ AllBlank(parsed),
                                            !.phase = "commit_done"]]
  /\ UNCHANGED <<documents, chunks, ensureIds>>
  /\ PipeUnchanged
  /\ PipeFrame

(* pipeline.py:608-618 - embedder.embed returned n vectors; zip pairs them  *)
(* with the payloads and add_chunk flushes one row per pair                 *)
EmbedReturn(r, n) ==
  /\ run[r].phase = "call" /\ run[r].step = 3
  /\ n \in 0..Len(run[r].payloads)
  /\ n >= Len(run[r].payloads) - 1
  /\ run' = [run EXCEPT ![r] =
       [@ EXCEPT !.flushed = [i \in 1..n |->
                                [document |-> run[r].document, index |-> i,
                                 content |-> run[r].payloads[i].text,
                                 page_number |-> run[r].payloads[i].page_number]],
                 !.mismatch = @ \/ n # Len(run[r].payloads),
                 !.phase = "commit_chunks"]]
  /\ UNCHANGED <<events, documents, chunks, ensureIds>>
  /\ PipeUnchanged
  /\ PipeFrame

(* pipeline.py:608 - embedder.embed raised; nothing catches it in run *)
EmbedRaise(r) ==
  /\ run[r].phase = "call" /\ run[r].step = 3
  /\ run' = [run EXCEPT ![r] = [@ EXCEPT !.phase = "done", !.outcome = "raised",
                                         !.raisedStep = 3]]
  /\ UNCHANGED <<events, documents, chunks, ensureIds>>
  /\ PipeUnchanged
  /\ PipeFrame

(* pipeline.py:619 *)
CommitChunks(r) ==
  /\ run[r].phase = "commit_chunks"
  /\ chunks' = chunks \cup {run[r].flushed[i] : i \in 1..Len(run[r].flushed)}
  /\ run' = [run EXCEPT ![r] = [@ EXCEPT !.flushed = <<>>, !.phase = "mark_done"]]
  /\ UNCHANGED <<events, documents, ensureIds>>
  /\ PipeUnchanged
  /\ PipeFrame

(* pipeline.py:621-627 *)
MarkEmbedded(r) ==
  /\ run[r].phase = "mark_done"
  /\ CanWrite(r, run[r].event)
  /\ events' = update_event_status(events, r, run[r].event, "success")
  /\ run' = [run EXCEPT ![r] = [@ EXCEPT !.phase = "commit_done"]]
  /\ UNCHANGED <<documents, chunks, ensureIds>>
  /\ PipeUnchanged
  /\ PipeFrame

RunSteps ==
  \/ \E r \in Runners : EnsureLookup(r)
  \/ \E r \in Runners : _ensure_event(r)
  \/ \E r \in Runners : MarkEvent(r)
  \/ \E r \in Runners : CommitMark(r)
  \/ \E r \in Runners : ParseReturn(r)
  \/ \E r \in Runners : ParseRaise(r)
  \/ \E r \in Runners : CommitFailedRaise(r)
  \/ \E r \in Runners : CommitDone(r)
  \/ \E r \in Runners : CreateDocument(r)
  \/ \E r \in Runners : PrepareChunks(r)
  \/ \E r \in Runners, n \in 0..MaxLen : EmbedReturn(r, n)
  \/ \E r \in Runners : EmbedRaise(r)
  \/ \E r \in Runners : CommitChunks(r)
  \/ \E r \in Runners : MarkEmbedded(r)
  \/ \E j \in PipeJobs : UploadCreateEvent(j)

PipeInitFrom(sources) ==
  /\ JobsInit
  /\ \E fs \in sources : jobFiles = [j \in AllJobs |-> IF j = 1 THEN fs ELSE <<"text">>]
  /\ WorkerInit
  /\ XIdle
  /\ ChunkIdle
  /\ ParseIdle
  /\ \E o \in {"api", "upload"} :
       /\ o = "upload" => Len(jobFiles[1]) = 1
       /\ jobOrigin = [j \in AllJobs |-> IF j = 1 THEN o ELSE "api"]
  /\ jobChunkSize = [j \in AllJobs |-> PipeChunkSize]
  /\ \E co \in 0..(PipeChunkSize - 1) :
       jobChunkOverlap = [j \in AllJobs |-> IF j = 1 THEN co ELSE 0]
  /\ PipeTablesInit

(* Job 1 is the job under study, with any source, origin and overlap; the   *)
(* other jobs are single-file jobs created through POST /jobs.  A job of    *)
(* upload_jobs has the one stored file as its source.                       *)
PipeInit == PipeInitFrom({fs \in WorkerSources : Len(fs) = 1})

SeqInit == PipeInitFrom(Sources)

(* concurrent callers of run(job) on single-file jobs (what upload_jobs     *)
(* creates): every runner may start one run at any time                     *)
PipeRunStart(r, j) ==
  /\ run[r].phase = "idle"
  /\ RunStart(r, j)

NextPipe ==
  \/ \E r \in Runners, j \in PipeJobs : PipeRunStart(r, j)
  \/ RunSteps

SpecPipe == PipeInit /\ [][NextPipe]_vars

(* sequential callers: run(job) starts once upload_jobs has finished with  *)
(* the job and no other run is in progress                                 *)
SeqRunStart(r, j) ==
  /\ \A r2 \in Runners : run[r2].phase \in {"idle", "done"}
  /\ jobOrigin[j] = "upload" => upIdx[j] = 4
  /\ RunStart(r, j)

NextSeq ==
  \/ \E r \in Runners, j \in PipeJobs : SeqRunStart(r, j)
  \/ RunSteps

SpecSeq == SeqInit /\ [][NextSeq]_vars

(**************************** chunker check *********************************)
ChunkInit ==
  /\ JobsInit
  /\ jobFiles = [j \in AllJobs |-> <<"text">>]
  /\ PipeIdle
  /\ WorkerInit
  /\ XIdle
  /\ cText \in Texts
  /\ cSize \in -1..MaxSize
  /\ cOverlap \in -1..MaxSize
  /\ cOut = <<>>
  /\ cDone = FALSE
  /\ ParseIdle

ChunkCall ==
  /\ ~cDone
  /\ cOut' = _chunk_text(cText, cSize, cOverlap)
  /\ cDone' = TRUE
  /\ UNCHANGED <<cText, cSize, cOverlap, jvars, wvars, pvars, dvars, svars, xvars>>

NextChunk == ChunkCall

SpecChunk == ChunkInit /\ [][NextChunk]_vars

(****************************** DoclingParser *******************************)
ParseFrame == UNCHANGED <<jvars, wvars, pvars, cvars, svars, xvars>>

(* Path.read_text(encoding="utf-8", errors="ignore"): the bytes that do not *)
(* decode are dropped                                                       *)
RECURSIVE read_text(_)
read_text(bytes) ==
  IF bytes = <<>> THEN <<>>
  ELSE (IF Head(bytes) = "x" THEN <<>> ELSE <<Head(bytes)>>) \o read_text(Tail(bytes))

_parse_plaintextWrong(path) ==
  IF \E i \in 1..Len(files[path]) : files[path][i] = "x"
  THEN [raised |-> TRUE, docs |-> <<>>]
  ELSE [raised |-> FALSE,
        docs |-> << [format |-> "plaintext",
                     pages |-> << [number |-> 1, content |-> files[path]] >>] >>]

(* DoclingParser._parse_plaintext: one document with one page, number 1 *)
_parse_plaintext(path) ==
  [raised |-> FALSE,
   docs |-> << [format |-> "plaintext",
                pages |-> << [number |-> 1, content |-> read_text(files[path])] >>] >>]

(* DoclingParser._create_file_hash *)
_create_file_hash(path) == Digest(files[path])

(* DoclingParser._load_cached_document on <hash>.json: _read_json catches   *)
(* FileNotFoundError and JSONDecodeError only, so bytes that are not UTF-8  *)
(* raise UnicodeDecodeError; JSON without a document format gives []        *)
_load_cached_document(h) ==
  CASE artifact[h] = "badutf8" -> [raised |-> TRUE, documents |-> 0]
    [] artifact[h] = "document" -> [raised |-> FALSE, documents |-> 1]
    [] OTHER -> [raised |-> FALSE, documents |-> 0]

(* the ParsedDocuments _prepare_document builds from n document formats *)
_prepare_document(n) == [i \in 1..n |-> [format |-> "docling", index |-> i]]

Returned(rec, docs) == [rec EXCEPT !.pc = "done", !.outcome = "returned", !.result = docs]

Raised(rec) == [rec EXCEPT !.pc = "done", !.outcome = "raised", !.result = <<>>]

Finish(rec, plain) == IF plain.raised THEN Raised(rec) ELSE Returned(rec, plain.docs)

(* parse(path), pipeline.py:479-480 - no converter: plain text *)
ParsePlain(t, p) ==
  /\ ~converterOn
  /\ parse[t].pc \in {"idle", "done"}
  /\ parses < MaxParses
  /\ parses' = parses + 1
  /\ parse' = [parse EXCEPT ![t] = Finish([IdleParse EXCEPT !.path = p], _parse_plaintext(p))]
  /\ UNCHANGED <<files, converterOn, artifact, tampered, convOf, convCalls, hashIndex>>
  /\ ParseFrame

(* parse(path), pipeline.py:481, 443-446 - _parse_with_docling starts in a  *)
(* thread of its own and hashes the file                                    *)
ParseDocling(t, p) ==
  /\ converterOn
  /\ parse[t].pc \in {"idle", "done"}
  /\ parses < MaxParses
  /\ parses' = parses + 1
  /\ parse' = [parse EXCEPT ![t] = [IdleParse EXCEPT !.path = p, !.pc = "load",
                                                     !.file_hash = _create_file_hash(p)]]
  /\ UNCHANGED <<files, converterOn, artifact, tampered, convOf, convCalls, hashIndex>>
  /\ ParseFrame

(* pipeline.py:448-449 *)
LoadCached(t) ==
  /\ parse[t].pc = "load"
  /\ LET h == parse[t].file_hash
         cached == _load_cached_document(h)
         saw == artifact[h] \in Unparsable
     IN parse' = [parse EXCEPT ![t] =
          IF cached.raised THEN Raised([@ EXCEPT !.sawUnparsable = saw])
          ELSE IF cached.documents > 0
          THEN [@ EXCEPT !.documents = cached.documents, !.pc = "load_index"]
          ELSE [@ EXCEPT !.sawUnparsable = saw, !.pc = "convert"]]
  /\ UNCHANGED <<files, converterOn, artifact, tampered, convOf, convCalls, hashIndex, parses>>
  /\ ParseFrame

(* pipeline.py:450-457 - converter.convert(path); the converter does the    *)
(* same with the same bytes on every call                                   *)
Convert(t, k) ==
  /\ parse[t].pc = "convert"
  /\ k \in ConvKinds
  /\ LET h == parse[t].file_hash
     IN /\ convOf[h] \in {"unknown", k}
        /\ convOf' = [convOf EXCEPT ![h] = k]
        /\ convCalls' = [convCalls EXCEPT ![h] = @ + 1]
        /\ parse' = [parse EXCEPT ![t] =
             CASE k = "raise" -> Raised([@ EXCEPT !.converted = TRUE])
               [] k = "nodoc" -> Finish([@ EXCEPT !.converted = TRUE],
                                        _parse_plaintext(parse[t].path))
               [] OTHER -> [@ EXCEPT !.converted = TRUE, !.pc = "persist",
                                     !.documents = IF k = "one" THEN 1 ELSE 2]]
  /\ UNCHANGED <<files, converterOn, artifact, tampered, hashIndex, parses>>
  /\ ParseFrame

(* pipeline.py:458-461 - _persist_json writes documents[0] *)
PersistJson(t) ==
  /\ parse[t].pc = "persist"
  /\ artifact' = [artifact EXCEPT ![parse[t].file_hash] = "document"]
  /\ parse' = [parse EXCEPT ![t] = [@ EXCEPT !.pc = "load_index"]]
  /\ UNCHANGED <<files, converterOn, tampered, convOf, convCalls, hashIndex, parses>>
  /\ ParseFrame

(* pipeline.py:465-466 - _load_hash_index and the comparison *)
LoadHashIndex(t) ==
  /\ parse[t].pc = "load_index"
  /\ parse' = [parse EXCEPT ![t] =
       IF hashIndex[parse[t].path] # parse[t].file_hash
       THEN [@ EXCEPT !.hash_index = hashIndex, !.pc = "save_index"]
       ELSE [@ EXCEPT !.hash_index = hashIndex, !.indexed = TRUE, !.pc = "prepare"]]
  /\ UNCHANGED <<files, converterOn, artifact, tampered, convOf, convCalls, hashIndex, parses>>
  /\ ParseFrame

(* pipeline.py:467-469 - the copy read before, with this path set, is       *)
(* written back                                                             *)
SaveHashIndex(t) ==
  /\ parse[t].pc = "save_index"
  /\ hashIndex' = [parse[t].hash_index EXCEPT ![parse[t].path] = parse[t].file_hash]
  /\ parse' = [parse EXCEPT ![t] = [@ EXCEPT !.indexed = TRUE, !.pc = "prepare"]]
  /\ UNCHANGED <<files, converterOn, artifact, tampered, convOf, convCalls, parses>>
  /\ ParseFrame

(* pipeline.py:471-476 *)
PrepareDocuments(t) ==
  /\ parse[t].pc = "prepare"
  /\ parse' = [parse EXCEPT ![t] = Returned(@, _prepare_document(parse[t].documents))]
  /\ UNCHANGED <<files, converterOn, artifact, tampered, convOf, convCalls, hashIndex, parses>>
  /\ ParseFrame

(* the artifact of a hash is damaged on disk (a write cut short, a disk     *)
(* fault); at most once per hash                                            *)
Corrupt(h, k) ==
  /\ artifact[h] = "document"
  /\ h \notin tampered
  /\ k \in ArtifactKinds \ {"missing", "document"}
  /\ artifact' = [artifact EXCEPT ![h] = k]
  /\ tampered' = tampered \cup {h}
  /\ UNCHANGED <<files, converterOn, convOf, convCalls, hashIndex, parse, parses>>
  /\ ParseFrame

ParseIdleRest ==
  /\ JobsInit
  /\ jobFiles = [j \in AllJobs |-> <<"text">>]
  /\ PipeIdle
  /\ WorkerInit
  /\ XIdle
  /\ ChunkIdle

(* the same bytes with another first byte *)
OtherBytes(bytes) == [bytes EXCEPT ![1] = IF @ = "a" THEN "x" ELSE "a"]

(* A parser with a converter.  Path 1 holds any bytes; every other path     *)
(* holds either the same bytes or different ones.                           *)
ParseInit ==
  /\ ParseIdleRest
  /\ \E b \in FileContents :
       files \in [Paths -> {b, OtherBytes(b)}] /\ files[1] = b
  /\ converterOn = TRUE
  /\ ParseTablesInit

NextParse ==
  \/ \E t \in Threads, p \in Paths : ParseDocling(t, p)
  \/ \E t \in Threads : LoadCached(t)
  \/ \E t \in Threads, k \in ConvKinds : Convert(t, k)
  \/ \E t \in Threads : PersistJson(t)
  \/ \E t \in Threads : LoadHashIndex(t)
  \/ \E t \in Threads : SaveHashIndex(t)
  \/ \E t \in Threads : PrepareDocuments(t)
  \/ \E h \in Hashes, k \in ArtifactKinds : Corrupt(h, k)

SpecParse == ParseInit /\ [][NextParse]_vars

(* A parser without a converter (Docling disabled or not installed), over   *)
(* any files.                                                               *)
PlainInit ==
  /\ ParseIdleRest
  /\ files \in [Paths -> FileContents]
  /\ converterOn = FALSE
  /\ ParseTablesInit

NextPlain == \E t \in Threads, p \in Paths : ParsePlain(t, p)

SpecPlain == PlainInit /\ [][NextPlain]_vars

(***************************** IngestionService *****************************)
ServiceFrame == UNCHANGED <<jobFiles, rowLock, wvars, cvars, dvars, xvars,
                            jobOrigin, upIdx, events, documents, chunks, run, runs, ensureIds>>

(* config.py:84-85, ChunkingSettings *)
default_size == 1200
default_overlap == 150

(* An optional int of the request is <<>> (omitted) or <<n>>.               *)
(* schemas.py:15-26 - what IngestionJobCreate accepts                       *)
IngestionJobCreate(chunk_size, chunk_overlap) ==
  /\ IF chunk_size = <<>> THEN TRUE ELSE chunk_size[1] >= 50 /\ chunk_size[1] <= 5000
  /\ IF chunk_overlap = <<>> THEN TRUE ELSE chunk_overlap[1] >= 0 /\ chunk_overlap[1] <= 2500

PayloadSizes == {<<>>, <<0>>, <<49>>, <<50>>, <<100>>, <<150>>, <<151>>, <<5000>>, <<5001>>}
PayloadOverlaps == {<<>>, <<-1>>, <<0>>, <<49>>, <<50>>, <<100>>, <<150>>, <<2500>>, <<2501>>}

(* service.py:52-53 - `payload.chunk_size or default` *)
OrSetting(value, default) ==
  IF value = <<>> THEN default ELSE IF value[1] = 0 THEN default ELSE value[1]

CreateJobRejectsWrong(chunk_size, chunk_overlap) ==
  chunk_size <= 0 \/ chunk_overlap < 0 \/ chunk_overlap > chunk_size

(* service.py:54-62 - the three checks that raise HTTP 400 *)
CreateJobRejects(chunk_size, chunk_overlap) ==
  chunk_size <= 0 \/ chunk_overlap < 0 \/ chunk_overlap >= chunk_size

(* the id of the row create_ingestion_job inserts *)
FreeJobs == {j \in AllJobs : ~jobExists[j]}

(* IngestionService.create_job, service.py:48-72; collection is what        *)
(* _resolve_collection finds: the collection, none (404) or one the roles   *)
(* may not use (403)                                                        *)
create_job(cs, co, collection) ==
  /\ IngestionJobCreate(cs, co)
  /\ FreeJobs # {}
  /\ LET j == SetMin(FreeJobs)
         chunk_size == OrSetting(cs, default_size)
         chunk_overlap == OrSetting(co, default_overlap)
         rejected == CASE collection = "missing" -> 404
                       [] collection = "forbidden" -> 403
                       [] CreateJobRejects(chunk_size, chunk_overlap) -> 400
                       [] OTHER -> 0
         resp == [op |-> "create_job", job |-> NoJob, status |-> rejected,
                  collection |-> collection,
                  payload |-> [chunk_size |-> cs, chunk_overlap |-> co],
                  chunk_size |-> chunk_size, chunk_overlap |-> chunk_overlap]
     IN IF rejected # 0
        THEN /\ response' = resp
             /\ UNCHANGED <<jobExists, jobStatus, jobChunkSize, jobChunkOverlap>>
        ELSE /\ response' = [resp EXCEPT !.job = j, !.status = 201]
             /\ jobExists' = [jobExists EXCEPT ![j] = TRUE]
             /\ jobStatus' = [jobStatus EXCEPT ![j] = "pending"]
             /\ jobChunkSize' = [jobChunkSize EXCEPT ![j] = chunk_size]
             /\ jobChunkOverlap' = [jobChunkOverlap EXCEPT ![j] = chunk_overlap]
  /\ ServiceFrame

(* IngestionService.delete_job, service.py:167-184.  DocumentRepository     *)
(* (document_repo.py:25-295) and AsyncRepository (base.py:15-52) define no  *)
(* delete_job, so line 180 raises AttributeError before anything is         *)
(* deleted: the request ends with a server error and the session is closed  *)
(* without a commit.                                                        *)
delete_job(j, allowed) ==
  /\ LET status == IF ~jobExists[j] THEN 404
                   ELSE IF ~allowed THEN 403
                   ELSE 500
     IN response' = [NoResponse EXCEPT !.op = "delete_job", !.job = j, !.status = status]
  /\ UNCHANGED <<jobExists, jobStatus, jobChunkSize, jobChunkOverlap>>
  /\ ServiceFrame

ServiceInit ==
  /\ jobStatus = [j \in AllJobs |-> "pending"]
  /\ rowLock = [j \in AllJobs |-> NoWorker]
  /\ jobExists = [j \in AllJobs |-> FALSE]
  /\ response = NoResponse
  /\ jobFiles = [j \in AllJobs |-> <<"text">>]
  /\ jobOrigin = [j \in AllJobs |-> "api"]
  /\ jobChunkSize = [j \in AllJobs |-> 0]
  /\ jobChunkOverlap = [j \in AllJobs |-> 0]
  /\ PipeTablesInit
  /\ WorkerInit
  /\ XIdle
  /\ ChunkIdle
  /\ ParseIdle

NextService ==
  \/ \E cs \in PayloadSizes, co \in PayloadOverlaps,
        collection \in {"ok", "missing", "forbidden"} : create_job(cs, co, collection)
  \/ \E j \in AllJobs, allowed \in BOOLEAN : delete_job(j, allowed)

SpecService == ServiceInit /\ [][NextService]_vars

(************************** _prepare_chunks check ***************************)
(* every variable outside this check, idle *)
RestIdle ==
  /\ JobsInit
  /\ jobFiles = [j \in AllJobs |-> <<"text">>]
  /\ PipeIdle
  /\ wpc = [w \in Workers |-> "poll"]
  /\ wjob = [w \in Workers |-> NoJob]
  /\ wsawNone = [w \in Workers |-> FALSE]
  /\ claimed = [j \in Jobs |-> {}]
  /\ ChunkIdle
  /\ ParseIdle

(* "Hello world": five letters, a blank, five letters *)
HelloWorld == <<"a", "a", "a", "a", "a", "s", "a", "a", "a", "a", "a">>

CiteTexts == {TextPage, BlankPage, HelloWorld}

(* a metadata string: missing, whitespace only, a value, a padded value *)
MetaValues(v) == {NoValue, <<"s">>, <<v>>, <<"s", v>>}

(* the (chunk_size, chunk_overlap) pairs of the calls *)
CiteSizes == {<<50, 0>>, <<PipeChunkSize, 1>>}

(* a ParsedDocument whose first page is `page`, followed by pages that     *)
(* carry no metadata of their own                                          *)
CiteDocument(page, n, hash) ==
  [pages |-> [i \in 1..n |->
                IF i = 1 THEN page
                ELSE ParsedPage(page.number + i - 1, TextPage, NoValue, NoValue)],
   docling_hash |-> hash]

CiteInit ==
  /\ RestIdle
  /\ DiskIdle
  /\ PageIdle
  /\ LoopIdle
  /\ \E number \in {1, 3}, content \in CiteTexts, image_path \in MetaValues("p"),
        hash \in MetaValues("h"), doc_hash \in {NoValue, <<"s">>, <<"g">>},
        n \in 1..MaxPages, sizes \in CiteSizes, document_id \in 1..2 :
       cite = [parsed |-> CiteDocument(ParsedPage(number, content, image_path, hash),
                                       n, doc_hash),
               document_id |-> document_id,
               chunk_size |-> sizes[1], chunk_overlap |-> sizes[2],
               payloads |-> <<>>, done |-> FALSE]

(* pipeline.py:653-712 - one call of _prepare_chunks *)
PrepareCall ==
  /\ ~cite.done
  /\ cite' = [cite EXCEPT !.payloads = _prepare_chunks(cite.parsed, cite.document_id,
                                                       cite.chunk_size, cite.chunk_overlap),
                          !.done = TRUE]
  /\ UNCHANGED <<jvars, wvars, pvars, cvars, dvars, svars, rawPage, loop, disk>>

NextCite == PrepareCall

SpecCite == CiteInit /\ [][NextCite]_vars

(*************************** _prepare_pages check ***************************)
(* What a converter puts into a page text, piece by piece: "w" a plain     *)
(* word, "s" whitespace, "md" a markdown image reference with a data URI,  *)
(* "img" an HTML <img> tag, "uri" a raw data URI, "cmt" an HTML comment.   *)
Pieces == {"w", "s", "md", "img", "uri", "cmt"}
ImagePieces == {"md", "img", "uri", "cmt"}

RECURSIVE PieceSeqsOfLen(_)
PieceSeqsOfLen(n) ==
  IF n = 0 THEN {<<>>}
  ELSE {Append(t, c) : t \in PieceSeqsOfLen(n - 1), c \in Pieces}

(* test_chunking_utils.py:17-22 - "Intro ![caption](data:...) middle       *)
(* <img src=... /> data:... <!-- image --> end"                            *)
SampleText ==
  <<"w", "s", "md", "s", "w", "s", "img", "s", "uri", "s", "cmt", "s", "w">>

PageTexts == UNION {PieceSeqsOfLen(n) : n \in 0..MaxTokens} \cup {SampleText}

(* "\n\n".join of the stripped, non-blank block texts *)
RECURSIVE JoinBlocks(_)
JoinBlocks(blocks) ==
  IF blocks = <<>> THEN <<>>
  ELSE LET rest == JoinBlocks(Tail(blocks))
           part == strip(Head(blocks))
       IN IF part = <<>> THEN rest
          ELSE IF rest = <<>> THEN part
          ELSE part \o <<"s", "s">> \o rest

(* pipeline.py:296-311 - the first non-blank of text, content, plain_text, *)
(* else the joined blocks, else ""                                         *)
_page_text(page_payload) ==
  IF NonBlank(page_payload.text) THEN page_payload.text
  ELSE IF NonBlank(page_payload.content) THEN page_payload.content
  ELSE IF NonBlank(page_payload.plain_text) THEN page_payload.plain_text
  ELSE JoinBlocks(page_payload.blocks)

TextInit ==
  /\ RestIdle
  /\ DiskIdle
  /\ CiteIdle
  /\ LoopIdle
  /\ \E text \in PageTexts, content \in {<<>>, <<"uri">>}, plain_text \in {<<>>, <<"w">>},
        blocks \in {<<>>, << <<"w">>, <<"s">>, <<"s", "img">> >>} :
       rawPage = [payload |-> [text |-> text, content |-> content,
                               plain_text |-> plain_text, blocks |-> blocks],
                  content |-> <<>>, skipped |-> FALSE, done |-> FALSE]

(* pipeline.py:385-399 - _prepare_pages makes a ParsedPage of the payload   *)
(* unless its text is blank; pipeline.py:665-671 - the page content is what *)
(* _prepare_chunks passes to _chunk_text                                    *)
PreparePage ==
  /\ ~rawPage.done
  /\ LET text == _page_text(rawPage.payload)
     IN rawPage' = [rawPage EXCEPT !.content = IF NonBlank(text) THEN text ELSE <<>>,
                                   !.skipped = ~NonBlank(text),
                                   !.done = TRUE]
  /\ UNCHANGED <<jvars, wvars, pvars, cvars, dvars, svars, cite, loop, disk>>

NextText == PreparePage

SpecText == TextInit /\ [][NextText]_vars

(**************************** worker_loop, fair *****************************)
(* the statements of worker_loop and process_job that worker w executes on *)
(* its own; raising and dying are not among them                           *)
WorkerStep(w) ==
  \/ Acquire(w)
  \/ AcquireNone(w)
  \/ Wake(w)
  \/ EndAcquireTxn(w)
  \/ MarkRunning(w)
  \/ CommitRunning(w)
  \/ MarkSuccess(w)
  \/ CommitSuccess(w)
  \/ CommitFailed(w)

Alive(w) == wpc[w] \notin {"crashed", "crashed_running"}

(* a worker dies while another one keeps running *)
CrashOne(w) ==
  /\ \E w2 \in Workers \ {w} : Alive(w2)
  /\ Crash(w)

LiveInit ==
  /\ RestIdle
  /\ XIdle

NextLive ==
  \/ \E w \in Workers : Acquire(w)
  \/ \E w \in Workers : AcquireNone(w)
  \/ \E w \in Workers : Wake(w)
  \/ \E w \in Workers : EndAcquireTxn(w)
  \/ \E w \in Workers : MarkRunning(w)
  \/ \E w \in Workers : CommitRunning(w)
  \/ \E w \in Workers : MarkSuccess(w)
  \/ \E w \in Workers : CommitSuccess(w)
  \/ \E w \in Workers : MarkFailed(w)
  \/ \E w \in Workers : CommitFailed(w)
  \/ \E w \in Workers : CrashOne(w)

(* every awaited statement of a worker that is alive completes: the event  *)
(* loop runs each worker task, the store answers, the sleeps end            *)
SpecLive == LiveInit /\ [][NextLive]_vars /\ \A w \in Workers : WF_vars(WorkerStep(w))

(************************** _chunk_text, step by step ***********************)
LoopFrame == UNCHANGED <<jvars, wvars, pvars, cvars, dvars, svars, cite, rawPage, disk>>

WindowEndWrong(start, chunk_size, length) == Min(start + chunk_size - 1, length)

(* pipeline.py:737 - end = min(start + chunk_size, length) *)
WindowEnd(start, chunk_size, length) == Min(start + chunk_size, length)

NextStartWrong(start, step) == start + step - 1

(* pipeline.py:743 - start += step *)
NextStart(start, step) == start + step

LoopInit ==
  /\ RestIdle
  /\ DiskIdle
  /\ CiteIdle
  /\ PageIdle
  /\ \E text \in Texts, chunk_size \in -1..MaxSize, chunk_overlap \in -1..MaxSize :
       loop = [text |-> text, chunk_size |-> chunk_size, chunk_overlap |-> chunk_overlap,
               step |-> 0, start |-> 0, chunks |-> <<>>, iterations |-> 0,
               pc |-> "entry"]

(* pipeline.py:726-735 - the early return for an empty text, else the      *)
(* clamped chunk_size and step and start = 0                               *)
LoopEnter ==
  /\ loop.pc = "entry"
  /\ loop' = IF loop.text = <<>> THEN [loop EXCEPT !.pc = "done"]
             ELSE [loop EXCEPT !.chunk_size = Max(@, 1),
                               !.step = ChunkStep(loop.chunk_size, loop.chunk_overlap),
                               !.pc = "while"]
  /\ LoopFrame

(* pipeline.py:736-744 - the test of the while and one pass of its body    *)
LoopStep ==
  /\ loop.pc = "while"
  /\ loop.iterations <= Len(loop.text)
  /\ LET length == Len(loop.text)
         end == WindowEnd(loop.start, loop.chunk_size, length)
         chunk_text == Slice(loop.text, loop.start, end)
         appended == IF NonBlank(chunk_text)
                     THEN Append(loop.chunks,
                                 [text |-> chunk_text, start |-> loop.start, end |-> end])
                     ELSE loop.chunks
     IN loop' = IF ~(loop.start < length) THEN [loop EXCEPT !.pc = "done"]
                ELSE IF end = length
                THEN [loop EXCEPT !.chunks = appended, !.iterations = @ + 1, !.pc = "done"]
                ELSE [loop EXCEPT !.chunks = appended, !.iterations = @ + 1,
                                  !.start = NextStart(@, loop.step)]
  /\ LoopFrame

NextLoop == LoopEnter \/ LoopStep

(* the call runs on: nothing but its own statements decides when _chunk_text *)
(* takes its next step                                                       *)
SpecLoop == LoopInit /\ [][NextLoop]_vars /\ WF_vars(NextLoop)

(************************ _collect_artifacts, _cleanup_files ****************)
(* A path is the sequence of its components.  config.py:91-93:             *)
upload_dir == <<"storage", "uploads">>
docling_output_dir == <<"storage", "docling">>
docling_hash_index == <<"storage", "docling", "index.json">>

(* a symbolic link in the upload directory and the directory it points to *)
LinkPath == upload_dir \o <<"link">>
LinkTarget == <<"etc">>

(* Path.resolve(): ".." leaves the directory reached so far, a symbolic    *)
(* link is replaced by its target                                          *)
RECURSIVE ResolveFrom(_, _)
ResolveFrom(reached, rest) ==
  IF rest = <<>> THEN reached
  ELSE LET c == Head(rest)
           next == IF c = ".."
                   THEN (IF reached = <<>> THEN <<>>
                         ELSE SubSeq(reached, 1, Len(reached) - 1))
                   ELSE Append(reached, c)
       IN ResolveFrom(IF next = LinkPath THEN LinkTarget ELSE next, Tail(rest))

resolve(path) == ResolveFrom(<<>>, path)

(* root in path.parents or path == root *)
IsPrefix(root, path) ==
  Len(root) <= Len(path) /\ SubSeq(path, 1, Len(root)) = root

(* service.py:240-243 *)
allowed_roots == {resolve(upload_dir), resolve(docling_output_dir)}

InsideRootWrong(resolved) == \E root \in allowed_roots : IsPrefix(<<Head(root)>>, resolved)

(* service.py:251 *)
InsideRoot(resolved) == \E root \in allowed_roots : IsPrefix(root, resolved)

(* service.py:251-256 - the paths _cleanup_files goes on to remove *)
Removable(path) ==
  /\ InsideRoot(resolve(path))
  /\ resolve(path) \notin allowed_roots

(* service.py:245-269 - rmtree removes a directory with all it holds,      *)
(* unlink a file; a path that is not there is passed over                  *)
_cleanup_files(fs, paths) ==
  {q \in fs : ~\E path \in paths : Removable(path) /\ IsPrefix(resolve(path), q)}

(* a value that is no string, or a blank one *)
NoPathValue == <<>>

(* the cache directory of a content hash and the files in it *)
CacheDir(h) == docling_output_dir \o <<h>>
CacheJson(h) == CacheDir(h) \o <<"json">>
CachePreview(h) == CacheDir(h) \o <<"page-1.png">>

ContentHashes == {"h1", "h2"}

(* what the rows of a job name: IngestionJob.source, the document_path of  *)
(* its events, and source_path, docling_output, image_dir and docling_hash *)
(* of its document                                                         *)
JobRows(source, document_path, docling_output, image_dir, docling_hash) ==
  [source |-> source, document_path |-> document_path, source_path |-> source,
   docling_output |-> docling_output, image_dir |-> image_dir,
   docling_hash |-> docling_hash]

(* the rows the pipeline writes for an uploaded file with content hash h   *)
(* (pipeline.py:413-420)                                                   *)
IngestedRows(file, h) ==
  JobRows(upload_dir \o <<file>>, upload_dir \o <<file>>, CacheJson(h), CacheDir(h), h)

(* service.py:186-233 - the paths collected for cleanup; docling_hash ""   *)
(* stands for a missing one                                                *)
_collect_artifacts(rows) ==
  ({rows.source, rows.document_path, rows.source_path, rows.docling_output,
    rows.image_dir} \ {NoPathValue})
  \cup (IF rows.docling_output # NoPathValue
        THEN {SubSeq(rows.docling_output, 1, Len(rows.docling_output) - 1)}
        ELSE {})
  \cup (IF rows.docling_hash # "" THEN {docling_output_dir \o <<rows.docling_hash>>}
        ELSE {})

(* the paths a request or a converter may have put into the rows *)
RawPaths ==
  { upload_dir \o <<"f1">>,
    upload_dir \o <<"sub">>,
    upload_dir,
    docling_output_dir,
    <<"storage">>,
    <<"etc", "passwd">>,
    upload_dir \o <<"..", "..", "etc", "passwd">>,
    LinkPath \o <<"passwd">>,
    docling_hash_index }

FilesInit ==
  { <<"storage">>, upload_dir, docling_output_dir, docling_hash_index,
    upload_dir \o <<"f1">>, upload_dir \o <<"f2">>,
    upload_dir \o <<"sub">>, upload_dir \o <<"sub", "f3">>, LinkPath,
    <<"etc">>, <<"etc", "passwd">> }
  \cup UNION {{CacheDir(h), CacheJson(h), CachePreview(h)} : h \in ContentHashes}

NumStoredJobs == 2
StoredJobs == 1..NumStoredJobs

(* Job 1 carries any paths; the other jobs are ingested uploads whose      *)
(* content hash may be the one of job 1.                                   *)
DiskInit ==
  /\ RestIdle
  /\ CiteIdle
  /\ PageIdle
  /\ LoopIdle
  /\ \E source \in RawPaths, document_path \in {NoPathValue, upload_dir \o <<"f1">>},
        docling_output \in {NoPathValue, CacheJson("h1"), docling_hash_index,
                            <<"etc", "passwd">>},
        image_dir \in {NoPathValue, CacheDir("h1"), <<"etc">>},
        docling_hash \in {"", "h1"}, h \in ContentHashes :
       disk = [fs |-> FilesInit,
               rows |-> [j \in StoredJobs |->
                           IF j = 1
                           THEN JobRows(source, document_path, docling_output,
                                        image_dir, docling_hash)
                           ELSE IngestedRows("f2", h)],
               cleaned |-> {}, removed |-> {}]

(* service.py:178, 184 - _cleanup_files is called with the paths           *)
(* _collect_artifacts gave for the job                                     *)
CleanupCollected(j) ==
  /\ j \notin disk.cleaned
  /\ LET fs == _cleanup_files(disk.fs, _collect_artifacts(disk.rows[j]))
     IN disk' = [disk EXCEPT !.fs = fs,
                             !.removed = @ \cup (disk.fs \ fs),
                             !.cleaned = @ \cup {j}]
  /\ UNCHANGED <<jvars, wvars, pvars, cvars, dvars, svars, cite, rawPage, loop>>

NextDisk == \E j \in StoredJobs : CleanupCollected(j)

SpecDisk == DiskInit /\ [][NextDisk]_vars

(*********************** delete_job during run(job) *************************)
(* DELETE /ingestion/jobs/{job_id} arrives at any moment of the runs *)
NextDelete ==
  \/ \E r \in Runners, j \in PipeJobs : SeqRunStart(r, j)
  \/ RunSteps
  \/ \E j \in PipeJobs, allowed \in BOOLEAN : delete_job(j, allowed)

SpecDelete == SeqInit /\ [][NextDelete]_vars

(******************************** claims ************************************)
Range(f) == {f[i] : i \in DOMAIN f}

(* C1: each pending job is claimed by exactly one worker - at most one      *)
(* worker ever transitions a given job to running and processes it.         *)
C1_OneWorkerPerJob == \A j \in Jobs : Cardinality(claimed[j]) <= 1

JobTransitions == {<<"pending", "running">>, <<"running", "success">>, <<"running", "failed">>}

(* C2: a job's status only moves pending -> running -> success | failed;    *)
(* a job that is success or failed never changes status again.              *)
C2_JobStatusLifecycle ==
  [][\A j \in Jobs : jobStatus'[j] # jobStatus[j]
                       => <<jobStatus[j], jobStatus'[j]>> \in JobTransitions]_vars

(* C3: a job whose status is success has at least one persisted chunk       *)
(* belonging to one of its documents.                                       *)
C3_SuccessHasChunk ==
  \A j \in Jobs : jobStatus[j] = "success"
                    => \E c \in chunks : documents[c.document].job = j

(* C4: run(job) does not return normally when the parser returned a         *)
(* document whose pages are all empty or whitespace-only.                   *)
C4_BlankDocumentRaises ==
  \A r \in Runners : ~(run[r].outcome = "returned" /\ run[r].blankDoc)

(* C5: when run(job) raises, the event of the step that raised has status   *)
(* failed, for the embedder exactly as for the parser.                      *)
C5_RaisedStepEventFailed ==
  [][\A r \in Runners :
       (run[r].outcome # "raised" /\ run'[r].outcome = "raised")
         => events'[run'[r].event].status = "failed"]_vars

EventTransitions ==
  {<<"none", "pending">>, <<"pending", "running">>, <<"running", "success">>,
   <<"running", "failed">>}

(* C6: the statuses written to an event go pending -> running -> success    *)
(* or pending -> running -> failed, for all four steps and for sources of   *)
(* several files.                                                           *)
C6_EventLifecycle ==
  [][\A i \in DOMAIN events :
       events'[i].dstatus # events[i].dstatus
         => <<events[i].dstatus, events'[i].dstatus>> \in EventTransitions]_vars

(* inserted rows of (job, step), committed or not *)
InsertedRows(j, s) ==
  {i \in 1..Len(events) : events[i].job = j /\ events[i].step = s /\ events[i].dstatus # "none"}

(* C7: sequential calls of _ensure_event for the same (job, step) all       *)
(* return the same row and that row is the only one of its (job, step): a   *)
(* row that already exists is returned, none is added.                      *)
C7_EnsureEventIdempotent ==
  \A j \in PipeJobs, s \in 1..4 :
    ensureIds[j][s] # {}
      => /\ Cardinality(ensureIds[j][s]) = 1
         /\ InsertedRows(j, s) = ensureIds[j][s]

(* C7 witness: in a job of upload_jobs whose file parsed to two documents,  *)
(* the second call for chunk_assembly has returned the row the upload made. *)
C7_Witness ==
  \E r \in Runners :
    /\ run[r].phase = "mark" /\ run[r].step = 2
    /\ jobOrigin[run[r].job] = "upload"
    /\ Len(documents) = 2
    /\ ensureIds[run[r].job][2] = {run[r].event}
    /\ run[r].event <= upIdx[run[r].job]

(* C8: at most one IngestionEvent row per (job, step) in every state.       *)
C8_OneEventPerStep ==
  \A j \in PipeJobs, s \in 1..4 : Cardinality(EventRows(j, s)) <= 1

C9_Pre == cDone /\ cSize > cOverlap /\ cOverlap >= 0

C9_LengthBound == \A i \in 1..Len(cOut) : Len(cOut[i].text) <= cSize

(* C9 as stated: every window is at most chunk_size long and every two      *)
(* consecutive emitted windows, the final one apart, overlap by exactly     *)
(* chunk_overlap.                                                           *)
C9_ExactOverlap ==
  C9_Pre =>
    /\ C9_LengthBound
    /\ \A i \in 1..(Len(cOut) - 2) : cOut[i + 1].start = cOut[i].end - cOverlap

(* the window the loop cuts at a start *)
WindowAt(start) == Slice(cText, start, Min(start + cSize, Len(cText)))

(* C9 amended: every window is at most chunk_size long and the next         *)
(* emitted window starts chunk_overlap before the end of the previous one,  *)
(* plus one step (chunk_size - chunk_overlap) for every whitespace-only     *)
(* window dropped between the two.                                          *)
C9_OverlapUpToDroppedWindows ==
  C9_Pre =>
    /\ C9_LengthBound
    /\ \A i \in 1..(Len(cOut) - 1) :
         \E m \in 0..Len(cText) :
           /\ cOut[i + 1].start = cOut[i].end - cOverlap + m * (cSize - cOverlap)
           /\ \A k \in 1..m : ~NonBlank(WindowAt(cOut[i].start + k * (cSize - cOverlap)))

(* C9 witness: overlapping windows with a dropped whitespace window between *)
(* two of them.                                                             *)
C9_Witness ==
  /\ C9_Pre /\ cOverlap = 1 /\ Len(cOut) >= 3
  /\ cOut[2].start = cOut[1].end - cOverlap
  /\ cOut[3].start > cOut[2].end - cOverlap

(* C10: a job over a directory of two files, one failing conversion and     *)
(* the other converting, never ends success.                                *)
C10_FailedFileFailsJob ==
  \A j \in Jobs :
    (Len(jobFiles[j]) = 2 /\ Range(jobFiles[j]) = {"bad", "text"})
      => jobStatus[j] # "success"

(* C11: parsing byte-identical files, or one file twice, computes the same  *)
(* hash each time and calls the converter at most once per content: a       *)
(* second parse is served from <hash>.json (as long as nothing damaged the  *)
(* artifact from outside).                                                  *)
C11_ConvertAtMostOnce ==
  /\ \A t1 \in Threads, t2 \in Threads :
       (parse[t1].file_hash # NoHash /\ parse[t2].file_hash # NoHash
        /\ files[parse[t1].path] = files[parse[t2].path])
         => parse[t1].file_hash = parse[t2].file_hash
  /\ \A h \in Hashes : h \notin tampered => convCalls[h] <= 1

(* C12: a parse that finds <hash>.json unparsable treats it as a miss: it   *)
(* does not raise, it calls the converter, rewrites the artifact and        *)
(* returns a parsed document.                                               *)
C12_UnparsableArtifactRebuilt ==
  \A t \in Threads :
    (parse[t].sawUnparsable /\ parse[t].pc = "done")
      => /\ parse[t].outcome = "returned"
         /\ parse[t].converted
         /\ parse[t].result # <<>>
         /\ artifact[parse[t].file_hash] = "document"

(* C13: without a converter parse(path) never raises and returns exactly    *)
(* one document with exactly one page, numbered 1, whose content is the     *)
(* text of the whole file; every call on the same bytes returns the same.   *)
C13_PlaintextFallback ==
  \A t \in Threads :
    (~converterOn /\ parse[t].pc = "done")
      => /\ parse[t].outcome = "returned"
         /\ Len(parse[t].result) = 1
         /\ Len(parse[t].result[1].pages) = 1
         /\ parse[t].result[1].pages[1].number = 1
         /\ parse[t].result[1].pages[1].content
              = SelectSeq(files[parse[t].path], LAMBDA b : b # "x")
         /\ \A t2 \in Threads :
              (parse[t2].pc = "done" /\ files[parse[t2].path] = files[parse[t].path])
                => parse[t2].result = parse[t].result

(* C13 witness: two calls on a file with a byte that is not UTF-8 have both *)
(* returned the one page with the decodable text.                           *)
C13_Witness ==
  \E t1 \in Threads, t2 \in Threads :
    /\ t1 # t2 /\ ~converterOn
    /\ parse[t1].pc = "done" /\ parse[t2].pc = "done"
    /\ parse[t1].path = parse[t2].path
    /\ files[parse[t1].path] = <<"x", "a">>
    /\ parse[t1].outcome = "returned" /\ parse[t2].outcome = "returned"
    /\ parse[t1].result[1].pages[1].content = <<"a">>

(* C20: updates of the hash index exclude each other: once a parse has      *)
(* passed the index update, the index maps its path to its hash, also when  *)
(* another parse of a different path ran at the same time.                  *)
C20_NoLostIndexUpdate ==
  \A t \in Threads :
    (parse[t].pc = "done" /\ parse[t].indexed)
      => hashIndex[parse[t].path] = parse[t].file_hash

(* valid chunking parameters of a job row *)
ValidChunking(chunk_size, chunk_overlap) ==
  chunk_size > 0 /\ 0 <= chunk_overlap /\ chunk_overlap < chunk_size

(* C14: every job row create_job persists has chunk_size > 0 and            *)
(* 0 <= chunk_overlap < chunk_size; a request (to a collection the caller   *)
(* may use) whose effective values violate this gets HTTP 400 and the job   *)
(* table stays as it was.                                                   *)
C14_ChunkingInvariant ==
  [][/\ \A j \in AllJobs :
          jobExists'[j] => ValidChunking(jobChunkSize'[j], jobChunkOverlap'[j])
     /\ (/\ response' # response
         /\ response'.op = "create_job"
         /\ response'.collection = "ok"
         /\ ~ValidChunking(response'.chunk_size, response'.chunk_overlap))
          => /\ response'.status = 400
             /\ UNCHANGED <<jobExists, jobStatus, jobChunkSize, jobChunkOverlap>>]_vars

(* C14 witness: a job with the smallest size and an overlap just below it   *)
(* is stored, and a request whose omitted overlap defaults to more than its *)
(* size has been rejected with 400.                                         *)
C14_Witness ==
  /\ \E j \in AllJobs :
       jobExists[j] /\ jobChunkSize[j] = 50 /\ jobChunkOverlap[j] = 49
  /\ response.op = "create_job" /\ response.status = 400
  /\ response.chunk_size = 100 /\ response.chunk_overlap = default_overlap

(* C15: a delete_job call on an existing job by a caller who may delete it  *)
(* succeeds, and after it the job row and every Document, Chunk and         *)
(* IngestionEvent row of the job are gone.                                  *)
C15_DeleteRemovesJob ==
  (response.op = "delete_job" /\ response.status \notin {403, 404})
    => /\ response.status = 204
       /\ ~jobExists[response.job]
       /\ \A i \in 1..Len(events) : events[i].job # response.job
       /\ \A i \in 1..Len(documents) : documents[i].job # response.job
       /\ \A c \in chunks : documents[c.document].job # response.job

(* C16: when the embedder returned a number of vectors other than the       *)
(* number of texts submitted, run(job) does not return normally and the     *)
(* embedding_indexing event is not marked success.                          *)
C16_EmbeddingCountMismatchRaises ==
  \A r \in Runners :
    run[r].mismatch
      => /\ run[r].outcome # "returned"
         /\ run[r].step = 3 => events[run[r].event].dstatus # "success"

(* C17: while parser.parse or embedder.embed is in flight the run holds no  *)
(* uncommitted event write, and the committed rows show docling_parse       *)
(* running, respectively chunk_assembly success and embedding_indexing      *)
(* running.                                                                 *)
C17_CommittedBeforeWait ==
  \A r \in Runners :
    (run[r].phase = "call" /\ run[r].step \in {1, 3})
      => /\ \A i \in 1..Len(events) : events[i].dirty # r
         /\ run[r].step = 1
              => /\ EventRows(run[r].job, 1) # {}
                 /\ \A i \in EventRows(run[r].job, 1) : events[i].status = "running"
         /\ run[r].step = 3
              => /\ EventRows(run[r].job, 2) # {}
                 /\ \A i \in EventRows(run[r].job, 2) : events[i].status = "success"
                 /\ EventRows(run[r].job, 3) # {}
                 /\ \A i \in EventRows(run[r].job, 3) : events[i].status = "running"

(* C17 witness: embedder.embed is in flight for the second file of a job,  *)
(* with chunk_assembly committed success and embedding_indexing running.    *)
C17_Witness ==
  \E r \in Runners :
    /\ run[r].phase = "call" /\ run[r].step = 3 /\ run[r].file = 2
    /\ events[run[r].event].status = "running"
    /\ \E i \in EventRows(run[r].job, 2) : events[i].status = "success"

(* C18: within the first run(job) the steps are strictly sequential: an     *)
(* event is running only while the preceding step's event is success, and   *)
(* no later step's event is running or success while it is running.         *)
C18_StepsSequential ==
  runs <= 1 =>
    \A j \in PipeJobs, s \in 1..4 :
      \A i \in InsertedRows(j, s) :
        events[i].dstatus = "running"
          => /\ s > 1 => \A k \in InsertedRows(j, s - 1) : events[k].dstatus = "success"
             /\ \A s2 \in (s + 1)..4 :
                  \A k \in InsertedRows(j, s2) :
                    events[k].dstatus \notin {"running", "success"}

(* C19: a running job is never handed out by _acquire_job, and when the     *)
(* worker that marked it running died before marking it success or failed,  *)
(* the job is running and stays so.                                         *)
C19_RunningSurvivesCrash ==
  /\ \A w \in Workers :
       wpc[w] = "acquired" => jobStatus[wjob[w]] = "pending"
  /\ \A w \in Workers :
       wpc[w] = "crashed_running" => jobStatus[wjob[w]] = "running"

(* C21: every chunk _prepare_chunks returns lies on a page of the document, *)
(* its citation carries that page's number, the page's docling_hash or,    *)
(* when the page has none, the document's, and an image_url for that page  *)
(* whenever an image path or a hash is known; "Hello world" on page 1 with *)
(* chunk size 50 and overlap 0 gives exactly one chunk spanning [0, 11).    *)
C21_Citations ==
  cite.done =>
    /\ \A i \in 1..Len(cite.payloads) :
         \E n \in 1..Len(cite.parsed.pages) :
           LET page == cite.parsed.pages[n]
               chunk == cite.payloads[i]
               known == IF strip(page.docling_hash) # NoValue
                        THEN strip(page.docling_hash)
                        ELSE strip(cite.parsed.docling_hash)
           IN /\ chunk.page_number = page.number
              /\ chunk.text = Slice(page.content, chunk.char_start, chunk.char_end)
              /\ chunk.citation.page_number = page.number
              /\ chunk.citation.docling_hash = known
              /\ chunk.citation.image_path = strip(page.image_path)
              /\ (strip(page.image_path) # NoValue \/ known # NoValue)
                   => chunk.citation.image_url
                        = <<"ingestion", "documents", cite.document_id,
                            "pages", page.number, "preview">>
    /\ ( /\ Len(cite.parsed.pages) = 1
         /\ cite.parsed.pages[1].content = HelloWorld
         /\ cite.parsed.pages[1].number = 1
         /\ cite.chunk_size = 50 /\ cite.chunk_overlap = 0 )
       => /\ Len(cite.payloads) = 1
          /\ cite.payloads[1].char_start = 0
          /\ cite.payloads[1].char_end = 11
          /\ cite.payloads[1].page_number = 1

(* "Hello world" on a page without a hash of its own was chunked and cited *)
(* with the document's hash                                                *)
C21_Witness ==
  /\ cite.done
  /\ Len(cite.parsed.pages) = 1
  /\ cite.parsed.pages[1].content = HelloWorld
  /\ cite.parsed.pages[1].number = 1
  /\ cite.parsed.pages[1].docling_hash = NoValue
  /\ cite.chunk_size = 50 /\ cite.chunk_overlap = 0
  /\ Len(cite.payloads) = 1
  /\ cite.payloads[1].citation.docling_hash = <<"g">>
  /\ cite.payloads[1].citation.image_url # NoValue

(* the plain words of a text joined by single spaces *)
RECURSIVE PlainWords(_)
PlainWords(t) ==
  IF t = <<>> THEN <<>>
  ELSE LET rest == PlainWords(Tail(t))
       IN IF Head(t) # "w" THEN rest
          ELSE IF rest = <<>> THEN <<"w">>
          ELSE <<"w", "s">> \o rest

(* C22: the text of a page that reaches the chunker holds no inline image  *)
(* payload: for a page text with markdown image references, <img> tags,    *)
(* data URIs or HTML comments between plain words, the chunker is handed   *)
(* exactly the plain words joined by single spaces.                        *)
C22_SanitizedBeforeChunking ==
  (rawPage.done /\ ~rawPage.skipped) =>
    /\ \A i \in 1..Len(rawPage.content) : rawPage.content[i] \notin ImagePieces
    /\ (\E i \in 1..Len(rawPage.payload.text) : rawPage.payload.text[i] \in ImagePieces)
         => rawPage.content = PlainWords(rawPage.payload.text)

(* C23: a create_job request that names a chunk_size and a chunk_overlap   *)
(* with chunk_size > chunk_overlap >= 0, chunk_overlap = 0 included, for a *)
(* collection the caller may use is answered 201 and the job row holds     *)
(* exactly the two requested values; defaults only replace omitted values. *)
C23_StoredAsRequested ==
  LET payload == response.payload
  IN ( /\ response.op = "create_job"
       /\ response.collection = "ok"
       /\ payload.chunk_size # <<>>
       /\ payload.chunk_overlap # <<>> )
     => ( payload.chunk_size[1] > payload.chunk_overlap[1]
            => /\ response.status = 201
               /\ jobChunkSize[response.job] = payload.chunk_size[1]
               /\ jobChunkOverlap[response.job] = payload.chunk_overlap[1] )

(* C24 as stated: while one worker keeps running and every step is taken   *)
(* fairly, every pending job is eventually marked success or failed.       *)
C24_PendingEndsTerminal ==
  \A j \in Jobs :
    (jobStatus[j] = "pending") ~> (jobStatus[j] \in {"success", "failed"})

(* C24: while one worker keeps running and every step is taken fairly,     *)
(* every pending job is eventually acquired and marked running, and then   *)
(* marked success or failed unless a worker died after it had marked the   *)
(* job running and before it marked it success or failed; a worker that    *)
(* found no pending job polls again after its sleep.                       *)
C24_PendingEndsTerminalOrOrphaned ==
  /\ \A j \in Jobs :
       (jobStatus[j] = "pending") ~> (claimed[j] # {})
  /\ \A j \in Jobs :
       (jobStatus[j] = "pending")
         ~> \/ jobStatus[j] \in {"success", "failed"}
            \/ \E w \in Workers : wpc[w] = "crashed_running" /\ wjob[w] = j
  /\ \A w \in Workers :
       (wpc[w] = "sleep") ~> (wpc[w] \in {"poll", "crashed"})

(* every job ended success or failed although one worker died *)
C24_Witness ==
  /\ \A j \in Jobs : jobStatus[j] \in {"success", "failed"}
  /\ \E w \in Workers : ~Alive(w)
  /\ \E w \in Workers : wpc[w] = "sleep"

(* C25: two finished parses of the same bytes return the same list of      *)
(* ParsedDocuments, whether the list came from the converter (the miss     *)
(* that wrote the artifact) or from the artifact (a later hit), as long as *)
(* nobody damaged the artifact; this includes converter results with more  *)
(* than one document.                                                      *)
C25_HitEqualsMiss ==
  \A t1, t2 \in Threads :
    ( /\ parse[t1].pc = "done" /\ parse[t1].outcome = "returned"
      /\ parse[t2].pc = "done" /\ parse[t2].outcome = "returned"
      /\ parse[t1].file_hash = parse[t2].file_hash
      /\ parse[t1].file_hash \notin tampered
      /\ parse[t1].converted /\ ~parse[t2].converted )
    => parse[t1].result = parse[t2].result

(* C26: _chunk_text returns for every text and every integer chunk_size    *)
(* and chunk_overlap, also chunk_size <= 0, chunk_overlap < 0 and          *)
(* chunk_overlap >= chunk_size: the step it uses is at least 1, the window *)
(* start grows with every pass of the loop, and neither the passes nor the *)
(* windows are more than the characters of the text.                       *)
C26_ChunkTextTerminates ==
  /\ <>(loop.pc = "done")
  /\ [](loop.pc = "while" => loop.step >= 1 /\ loop.chunk_size >= 1)
  /\ [](loop.iterations <= Len(loop.text) /\ Len(loop.chunks) <= Len(loop.text))
  /\ [][(loop.pc = "while" /\ loop'.pc = "while") => loop'.start > loop.start]_vars

(* a call with chunk_overlap >= chunk_size and chunk_size <= 0 returned    *)
(* after as many passes as the text has characters                         *)
C26_Witness ==
  /\ loop.pc = "done"
  /\ loop.chunk_overlap >= 1
  /\ Len(loop.text) = MaxLen
  /\ loop.iterations = MaxLen
  /\ Len(loop.chunks) = MaxLen

(* C27: when _chunk_text has returned, every window holds the characters   *)
(* of the text on its span [start, end) with 0 <= start < end <= length,   *)
(* and every character of the text that is not whitespace lies in the span *)
(* of some window, for every chunk_size and chunk_overlap; the windows are  *)
(* the ones _prepare_chunks records with their spans.                      *)
C27_NoTextLost ==
  loop.pc = "done" =>
    /\ loop.chunks = _chunk_text(loop.text, loop.chunk_size, loop.chunk_overlap)
    /\ \A i \in 1..Len(loop.chunks) :
         LET w == loop.chunks[i]
         IN /\ 0 <= w.start /\ w.start < w.end /\ w.end <= Len(loop.text)
            /\ w.text = [k \in 1..(w.end - w.start) |-> loop.text[w.start + k]]
    /\ \A k \in 1..Len(loop.text) :
         loop.text[k] # "s" =>
           \E i \in 1..Len(loop.chunks) :
             loop.chunks[i].start < k /\ k <= loop.chunks[i].end

(* a text was cut into several windows and a whitespace-only window was    *)
(* dropped                                                                 *)
C27_Witness ==
  /\ loop.pc = "done"
  /\ Len(loop.chunks) >= 2
  /\ loop.iterations > Len(loop.chunks)
  /\ loop.step < loop.chunk_size

C30_CleanupConfined ==
  \A q \in disk.removed :
    \E root \in {upload_dir, docling_output_dir} :
      /\ Len(q) > Len(root)
      /\ \A i \in 1..Len(root) : q[i] = root[i]

(* rows naming a path outside the roots were cleaned up and something      *)
(* inside a root was removed                                               *)
C30_Witness ==
  /\ 1 \in disk.cleaned
  /\ disk.rows[1].source \in {<<"etc", "passwd">>, <<"storage">>,
                              upload_dir \o <<"..", "..", "etc", "passwd">>,
                              LinkPath \o <<"passwd">>}
  /\ disk.rows[1].image_dir = <<"etc">>
  /\ disk.removed # {}
  /\ <<"etc", "passwd">> \in disk.fs

====
